---- MODULE Spec2Model ----
(***************************************************************************)
(* Solar mini-grid technoeconomic model: the two batch scripts             *)
(*   customer_scoring_algorithm.py     (normalize_score,                   *)
(*                                      calculate_viability_scores)        *)
(*   financial_projections_model.py    (run_financial_projections)         *)
(* as one state machine.  A behaviour is one invocation of one entry       *)
(* point (prog) on one input file; pc is the position in its body.         *)
(*                                                                         *)
(* float64 is modelled as decimal floating point with 9 significant       *)
(* digits, every operation rounding to nearest (ties to even), plus NaN    *)
(* and the two infinities.  TLC's integers are 32 bits wide, so            *)
(* products and quotients are formed digit by digit (MulQR, DivQR) and no  *)
(* intermediate value exceeds 2^31.                                        *)
(***************************************************************************)
EXTENDS Integers, Sequences, FiniteSets, TLC

VARIABLES prog, pc, input, settlements, viable_sites, files, written, error, call

vars == <<prog, pc, input, settlements, viable_sites, files, written, error, call>>

(***************************************************************************)
(* Bounds of the model (not program constants).                            *)
(***************************************************************************)
MaxScoreRows == 3
MaxFinRows == 2
MaxSeriesLen == 3

(***************************************************************************)
(* float64                                                                 *)
(***************************************************************************)
Pow10 == <<1, 10, 100, 1000, 10000, 100000, 1000000, 10000000, 100000000, 1000000000>>

P10(k) == Pow10[k + 1]

Abs(n) == IF n < 0 THEN -n ELSE n

Sgn(n) == IF n < 0 THEN -1 ELSE IF n > 0 THEN 1 ELSE 0

\* The i-th base-1000 digit of n >= 0.
Limb(n, i) == (n \div P10(3 * i)) % 1000

\* <<q, r>> with a * b = q * 10^9 + r and 0 <= r < 10^9, for 0 <= a, b < 10^9:
\* schoolbook multiplication on base-1000 digits.
MulQR(a, b) ==
    LET c0 == Limb(a, 0) * Limb(b, 0)
        c1 == Limb(a, 0) * Limb(b, 1) + Limb(a, 1) * Limb(b, 0)
        c2 == Limb(a, 0) * Limb(b, 2) + Limb(a, 1) * Limb(b, 1) + Limb(a, 2) * Limb(b, 0)
        c3 == Limb(a, 1) * Limb(b, 2) + Limb(a, 2) * Limb(b, 1)
        c4 == Limb(a, 2) * Limb(b, 2)
        t1 == c1 + (c0 \div 1000)
        t2 == c2 + (t1 \div 1000)
    IN  <<(t2 \div 1000) + c3 + c4 * 1000,
          (c0 % 1000) + (t1 % 1000) * 1000 + (t2 % 1000) * 1000000>>

\* <<q, s>> with r * B = q * b + s and 0 <= s < b, for 0 <= r < b,
\* 10^8 <= b < 10^9 and B in {100, 1000}: one step of long division, the
\* quotient digit estimated from the leading digits of b and corrected.
DivStep(r, b, B) ==
    LET bh  == b \div B
        bl  == b % B
        est == IF r \div bh > B - 1 THEN B - 1 ELSE r \div bh
        s   == (r - est * bh) * B - est * bl
    IN  IF s < 0 THEN <<est - 1, s + b>> ELSE <<est, s>>

\* <<q, s>> with a * 10^k = q * b + s, 10^8 <= a, b < 10^9, k = 8 if a >= b
\* and 9 otherwise, so that q has 9 digits.
DivQR(a, b) ==
    LET s1 == DivStep(IF a >= b THEN a % b ELSE a, b, 1000)
        s2 == DivStep(s1[2], b, 1000)
        s3 == DivStep(s2[2], b, IF a >= b THEN 100 ELSE 1000)
    IN  IF a >= b
        THEN <<(a \div b) * P10(8) + s1[1] * P10(5) + s2[1] * 100 + s3[1], s3[2]>>
        ELSE <<s1[1] * P10(6) + s2[1] * 1000 + s3[1], s3[2]>>

\* Round the quotient q (remainder r, divisor c) to nearest, ties to even.
RoundQR(qr, c) ==
    IF qr[2] > c - qr[2] \/ (qr[2] = c - qr[2] /\ qr[1] % 2 = 1)
    THEN qr[1] + 1 ELSE qr[1]

\* n / 10^k rounded to nearest (ties to even), n any integer, 0 <= k <= 9.
RoundShift(n, k) == Sgn(n) * RoundQR(<<Abs(n) \div P10(k), Abs(n) % P10(k)>>, P10(k))

NaN == [kind |-> "nan", m |-> 0, e |-> 0]

PosInf == [kind |-> "inf", m |-> 1, e |-> 0]

NegInf == [kind |-> "inf", m |-> -1, e |-> 0]

Zero == [kind |-> "num", m |-> 0, e |-> 0]

IsNum(x) == x.kind = "num"

IsNaN(x) == x.kind = "nan"

IsInf(x) == x.kind = "inf"

NumDigits(n) == CHOOSE k \in 1..10 : P10(k - 1) <= n /\ (k = 10 \/ n < P10(k))

\* The float of value M * 10^E, |M| < 2^31: the mantissa brought to 9 digits.
Norm(M, E) ==
    IF M = 0 THEN Zero
    ELSE LET d == NumDigits(Abs(M))
         IN  IF d = 10
             THEN [kind |-> "num", m |-> RoundShift(M, 1), e |-> E + 1]
             ELSE [kind |-> "num", m |-> M * P10(9 - d), e |-> E - (9 - d)]

\* The float of the integer n, and of the decimal literal n * 10^-k.
FromInt(n) == Norm(n, 0)

Dec(n, k) == Norm(n, -k)

FNeg(x) == IF IsNum(x) THEN [x EXCEPT !.m = -x.m] ELSE IF IsInf(x) THEN [x EXCEPT !.m = -x.m] ELSE x

FSign(x) == Sgn(x.m)

AddNum(x, y) ==
    IF x.m = 0 THEN y
    ELSE IF y.m = 0 THEN x
    ELSE LET hi == IF x.e >= y.e THEN x ELSE y
             lo == IF x.e >= y.e THEN y ELSE x
             d  == hi.e - lo.e
         IN  IF d > 9 THEN hi ELSE Norm(hi.m + RoundShift(lo.m, d), hi.e)

FAdd(x, y) ==
    IF IsNaN(x) \/ IsNaN(y) THEN NaN
    ELSE IF IsInf(x) /\ IsInf(y) THEN (IF x.m = y.m THEN x ELSE NaN)
    ELSE IF IsInf(x) THEN x
    ELSE IF IsInf(y) THEN y
    ELSE AddNum(x, y)

FSub(x, y) == FAdd(x, FNeg(y))

MulNum(x, y) ==
    IF x.m = 0 \/ y.m = 0 THEN Zero
    ELSE LET s  == Sgn(x.m) * Sgn(y.m)
             q9 == MulQR(Abs(x.m), Abs(y.m))
             q8 == <<q9[1] * 10 + (q9[2] \div P10(8)), q9[2] % P10(8)>>
         IN  IF q9[1] >= P10(8)
             THEN Norm(s * RoundQR(q9, P10(9)), x.e + y.e + 9)
             ELSE Norm(s * RoundQR(q8, P10(8)), x.e + y.e + 8)

FMul(x, y) ==
    IF IsNaN(x) \/ IsNaN(y) THEN NaN
    ELSE IF IsInf(x) \/ IsInf(y)
         THEN (IF FSign(x) * FSign(y) = 0 THEN NaN
               ELSE IF FSign(x) * FSign(y) > 0 THEN PosInf ELSE NegInf)
    ELSE MulNum(x, y)

DivNum(x, y) ==
    LET s == Sgn(x.m) * Sgn(y.m)
        a == Abs(x.m)
        b == Abs(y.m)
    IN  IF a >= b
        THEN Norm(s * RoundQR(DivQR(a, b), b), x.e - y.e - 8)
        ELSE Norm(s * RoundQR(DivQR(a, b), b), x.e - y.e - 9)

\* IEEE division: x / 0 is an infinity (NaN for 0 / 0), never an exception.
FDiv(x, y) ==
    IF IsNaN(x) \/ IsNaN(y) THEN NaN
    ELSE IF IsInf(x) THEN (IF IsInf(y) THEN NaN
                           ELSE IF FSign(x) * (IF y.m < 0 THEN -1 ELSE 1) > 0 THEN PosInf ELSE NegInf)
    ELSE IF IsInf(y) THEN Zero
    ELSE IF y.m = 0 THEN (IF x.m = 0 THEN NaN ELSE IF x.m > 0 THEN PosInf ELSE NegInf)
    ELSE IF x.m = 0 THEN Zero
    ELSE DivNum(x, y)

\* Comparisons: every comparison with NaN is false.
FLt(x, y) ==
    /\ ~IsNaN(x) /\ ~IsNaN(y)
    /\ IF IsInf(x) \/ IsInf(y)
       THEN (IF IsInf(x) THEN x.m < 0 /\ ~(IsInf(y) /\ y.m < 0)
                         ELSE y.m > 0)
       ELSE FSign(AddNum(x, FNeg(y))) < 0

FGt(x, y) == FLt(y, x)

FLe(x, y) == ~IsNaN(x) /\ ~IsNaN(y) /\ ~FLt(y, x)

FGe(x, y) == FLe(y, x)

FEq(x, y) == ~IsNaN(x) /\ ~IsNaN(y) /\ x = y

\* The integer a float converts to, truncating toward zero (finite x only).
TruncInt(x) ==
    IF x.e >= 0 THEN x.m * P10(x.e)
    ELSE IF -x.e > 9 THEN 0
    ELSE Sgn(x.m) * (Abs(x.m) \div P10(-x.e))

\* round(x, 1): to one decimal place, ties to even.
Round1(x) ==
    IF ~IsNum(x) \/ x.e >= -1 THEN x
    ELSE IF -1 - x.e > 9 THEN Zero
    ELSE Norm(RoundShift(x.m, -1 - x.e), -1)

FillNa(x, v) == IF IsNaN(x) THEN v ELSE x

\* Series.replace(a, b) for one element.
Replace(x, a, b) == IF x = a THEN b ELSE x

\* x ** n for a small natural n, by squaring.
RECURSIVE FPow(_, _)
FPow(x, n) ==
    IF n = 0 THEN FromInt(1)
    ELSE IF n = 1 THEN x
    ELSE LET h == FPow(x, n \div 2)
             sq == FMul(h, h)
         IN  IF n % 2 = 0 THEN sq ELSE FMul(sq, x)

(***************************************************************************)
(* Tables: a DataFrame is a sequence of rows, a row a function from column *)
(* names to values; "id" is the row's index label, kept by every           *)
(* operation.                                                              *)
(***************************************************************************)
SetCol(row, col, v) == [c \in DOMAIN row \cup {col} |-> IF c = col THEN v ELSE row[c]]

NoFile == [written |-> FALSE, rows |-> <<>>]

FileOf(tbl) == [written |-> TRUE, rows |-> tbl]

(***************************************************************************)
(* financial_projections_model.py: global assumptions                      *)
(***************************************************************************)
CUSTOMER_PENETRATION == Dec(30, 2)

AVG_HOUSEHOLD_SIZE == 5

DAILY_KWH_PER_CUSTOMER == Dec(10, 1)

SYSTEM_OVERSIZING == Dec(145, 2)

BASELINE_GHI == Dec(55, 1)

CAPEX_PER_KW == Dec(30000, 1)

OPEX_PERCENT == Dec(4, 2)

TARIFF_PER_KWH == Dec(60, 2)

COLLECTION_RATE == Dec(85, 2)

DISCOUNT_RATE == Dec(12, 2)

PROJECT_LIFETIME == 10

SENTINEL == 999

(***************************************************************************)
(* run_financial_projections, column by column                             *)
(***************************************************************************)
households(row) == FDiv(row["pop"], FromInt(AVG_HOUSEHOLD_SIZE))

\* The float that .astype(int) converts; the conversion raises on NaN or inf.
customers_float(row) == FMul(households(row), CUSTOMER_PENETRATION)

estimated_customers(row) == FromInt(TruncInt(customers_float(row)))

estimated_demand_kwh_day(row) == FMul(row["estimated_customers"], DAILY_KWH_PER_CUSTOMER)

ghi_factor(row) == FDiv(Replace(FillNa(row["solar_ghi"], BASELINE_GHI), Zero, BASELINE_GHI), BASELINE_GHI)

system_size_kw(row) ==
    FMul(FDiv(row["estimated_demand_kwh_day"], FMul(ghi_factor(row), FromInt(4))), SYSTEM_OVERSIZING)

logistics_mult(row) == FAdd(FromInt(1), FMul(FDiv(row["distance_to_grid_km"], FromInt(100)), Dec(1, 1)))

capex_estimate_usd(row) == FMul(FMul(row["system_size_kw"], CAPEX_PER_KW), logistics_mult(row))

opex_annual_usd(row) == FMul(row["capex_estimate_usd"], OPEX_PERCENT)

annual_energy_sales(row) == FMul(row["estimated_demand_kwh_day"], FromInt(365))

revenue_annual_usd(row) == FMul(FMul(annual_energy_sales(row), TARIFF_PER_KWH), COLLECTION_RATE)

annual_cashflow(row) == FSub(row["revenue_annual_usd"], row["opex_annual_usd"])

payback_years(row) ==
    IF FGt(row["annual_cashflow_usd"], Zero)
    THEN FDiv(row["capex_estimate_usd"], row["annual_cashflow_usd"])
    ELSE FromInt(SENTINEL)

annuity_factor ==
    FDiv(FSub(FromInt(1), FDiv(FromInt(1), FPow(FAdd(FromInt(1), DISCOUNT_RATE), PROJECT_LIFETIME))),
         DISCOUNT_RATE)

npv_10yr_usd(row) ==
    FAdd(FNeg(row["capex_estimate_usd"]), FMul(row["annual_cashflow_usd"], annuity_factor))

simple_yield_percent(row) ==
    LET raw == FMul(FDiv(row["annual_cashflow_usd"], row["capex_estimate_usd"]), FromInt(100))
    IN  FillNa(Replace(Replace(raw, PosInf, Zero), NegInf, Zero), Zero)

\* Lines 45-46, for one record and for the table.
EstimatedRow(row) ==
    LET a == SetCol(row, "estimated_customers", estimated_customers(row))
    IN  SetCol(a, "estimated_demand_kwh_day", estimated_demand_kwh_day(a))

Estimated(tbl) == [i \in 1..Len(tbl) |-> EstimatedRow(tbl[i])]

\* Line 52.
Sized(tbl) == [i \in 1..Len(tbl) |-> SetCol(tbl[i], "system_size_kw", system_size_kw(tbl[i]))]

\* Lines 60-67.
CostedRow(row) ==
    LET a == SetCol(row, "capex_estimate_usd", capex_estimate_usd(row))
        b == SetCol(a, "opex_annual_usd", opex_annual_usd(a))
    IN  SetCol(b, "revenue_annual_usd", revenue_annual_usd(b))

Costed(tbl) == [i \in 1..Len(tbl) |-> CostedRow(tbl[i])]

\* Lines 72-94.
ProjectedRow(row) ==
    LET a == SetCol(row, "annual_cashflow_usd", annual_cashflow(row))
        b == SetCol(a, "payback_years", payback_years(a))
        c == SetCol(b, "npv_10yr_usd", npv_10yr_usd(b))
    IN  SetCol(c, "simple_yield_percent", simple_yield_percent(c))

Projected(tbl) == [i \in 1..Len(tbl) |-> ProjectedRow(tbl[i])]

\* Definition of "viable": positive NPV and payback under 7 years.
IsViable(row) == FGt(row["npv_10yr_usd"], Zero) /\ FLt(row["payback_years"], FromInt(7))

cols_to_round ==
    {"system_size_kw", "capex_estimate_usd", "revenue_annual_usd", "npv_10yr_usd",
     "payback_years", "simple_yield_percent"}

RoundCols(row, cols) == [c \in DOMAIN row |-> IF c \in cols THEN Round1(row[c]) ELSE row[c]]

\* Line 106: settlements[cols_to_round].round(1).
Rounded(tbl) == [i \in 1..Len(tbl) |-> RoundCols(tbl[i], cols_to_round)]

(***************************************************************************)
(* Input files.  A file that cannot be read has no content; a readable one *)
(* has a set of attribute columns and a row per settlement.                *)
(***************************************************************************)
Unreadable == [ok |-> FALSE, cols |-> {}, rows |-> <<>>]

\* The rows of a file: row i is cell[i] cut down to the file's columns.
FileRows(cells, cols) ==
    [i \in 1..Len(cells) |-> [c \in cols \cup {"id"} |-> IF c = "id" THEN i ELSE cells[i][c]]]

FinCols == {"pop", "solar_ghi", "distance_to_grid_km"}

FinCell(p, g, d) == [pop |-> p, solar_ghi |-> g, distance_to_grid_km |-> d]

\* The settlements the input tables are drawn from: a sunny hamlet at the
\* edge of viability, a sunny town, a site with a negative irradiance reading,
\* an empty site with no irradiance, a remote site with irradiance missing,
\* a site with population missing and one with distance missing.
FinCells ==
    { FinCell(FromInt(20), Dec(70, 1), FromInt(4)),
      FinCell(FromInt(1000), Dec(80, 1), Zero),
      FinCell(FromInt(20), Dec(-55, 1), FromInt(4)),
      FinCell(Zero, Zero, FromInt(4)),
      FinCell(FromInt(20), NaN, FromInt(4000)),
      FinCell(NaN, Dec(55, 1), FromInt(4)),
      FinCell(FromInt(20), Dec(70, 1), NaN) }

\* One column at most is absent from the file.
ColumnSets(all) == {all} \cup {all \ {c} : c \in all}

FinInputs ==
    {Unreadable} \cup
    {[ok |-> TRUE, cols |-> cs, rows |-> FileRows(cells, cs)] :
        cs \in ColumnSets(FinCols),
        cells \in UNION {[1..n -> FinCells] : n \in 0..MaxFinRows}}

NoFiles == [scored |-> NoFile, full |-> NoFile, viable |-> NoFile]

InitFin ==
    /\ prog = "fin"
    /\ pc = "start"
    /\ input \in FinInputs
    /\ settlements = <<>>
    /\ viable_sites = <<>>
    /\ files = NoFiles
    /\ written = <<>>
    /\ error = ""
    /\ call = <<>>

\* The try/except with the return of its except branch left out.
AfterLoad_NoReturn(ok) == "loaded"

\* The position after the try/except around gpd.read_file.
AfterLoad(ok) == IF ok THEN "loaded" ELSE "aborted"

\* An uncaught exception ends the run where it is raised.
Raise(exc) ==
    /\ pc' = "crashed"
    /\ error' = exc

\* .astype(int) raises when a value of the series is NaN or infinite.
HasNonFinite(tbl) == \E i \in 1..Len(tbl) : ~IsNum(customers_float(tbl[i]))

FinLoad ==
    /\ prog = "fin" /\ pc = "start"
    /\ pc' = AfterLoad(input.ok)
    /\ settlements' = input.rows
    /\ error' = IF input.ok THEN error ELSE "Error loading input file"
    /\ UNCHANGED <<prog, input, viable_sites, files, written, call>>

\* Lines 44-46: households, estimated_customers, estimated_demand_kwh_day.
FinEstimate ==
    /\ prog = "fin" /\ pc = "loaded"
    /\ IF "pop" \notin input.cols
       THEN Raise("KeyError: pop") /\ UNCHANGED settlements
       ELSE IF HasNonFinite(settlements)
       THEN Raise("IntCastingNaNError") /\ UNCHANGED settlements
       ELSE /\ settlements' = Estimated(settlements)
            /\ pc' = "estimated"
            /\ UNCHANGED error
    /\ UNCHANGED <<prog, input, viable_sites, files, written, call>>

\* Lines 51-52: ghi_factor, system_size_kw.
FinSize ==
    /\ prog = "fin" /\ pc = "estimated"
    /\ IF "solar_ghi" \notin input.cols
       THEN Raise("KeyError: solar_ghi") /\ UNCHANGED settlements
       ELSE /\ settlements' = Sized(settlements)
            /\ pc' = "sized"
            /\ UNCHANGED error
    /\ UNCHANGED <<prog, input, viable_sites, files, written, call>>

\* Lines 59-67: logistics_mult, capex, opex, revenue.
FinCost ==
    /\ prog = "fin" /\ pc = "sized"
    /\ IF "distance_to_grid_km" \notin input.cols
       THEN Raise("KeyError: distance_to_grid_km") /\ UNCHANGED settlements
       ELSE /\ settlements' = Costed(settlements)
            /\ pc' = "costed"
            /\ UNCHANGED error
    /\ UNCHANGED <<prog, input, viable_sites, files, written, call>>

\* Lines 72-94: cash flow, payback, NPV, simple yield.
FinMetrics ==
    /\ prog = "fin" /\ pc = "costed"
    /\ settlements' = Projected(settlements)
    /\ pc' = "projected"
    /\ UNCHANGED <<prog, input, viable_sites, files, written, error, call>>

\* Lines 99-102: viable_sites is a copy of the rows that pass the filter.
FinFilter ==
    /\ prog = "fin" /\ pc = "projected"
    /\ viable_sites' = SelectSeq(settlements, IsViable)
    /\ pc' = "filtered"
    /\ UNCHANGED <<prog, input, settlements, files, written, error, call>>

\* Lines 105-106: the rounding, of settlements only.
FinRound ==
    /\ prog = "fin" /\ pc = "filtered"
    /\ settlements' = Rounded(settlements)
    /\ pc' = "rounded"
    /\ UNCHANGED <<prog, input, viable_sites, files, written, error, call>>

\* Lines 109-121: the console summary; line 111 divides by len(settlements).
FinSummary ==
    /\ prog = "fin" /\ pc = "rounded"
    /\ IF Len(settlements) = 0
       THEN Raise("ZeroDivisionError")
       ELSE pc' = "reported" /\ UNCHANGED error
    /\ UNCHANGED <<prog, input, settlements, viable_sites, files, written, call>>

\* Lines 124-127: financial_projections_full.geojson.
FinWriteFull ==
    /\ prog = "fin" /\ pc = "reported"
    /\ files' = [files EXCEPT !.full = FileOf(settlements)]
    /\ written' = Append(written, "full")
    /\ pc' = "full_saved"
    /\ UNCHANGED <<prog, input, settlements, viable_sites, error, call>>

\* Lines 130-132: viable_project_pipeline.csv.
FinWriteViable ==
    /\ prog = "fin" /\ pc = "full_saved"
    /\ files' = [files EXCEPT !.viable = FileOf(viable_sites)]
    /\ written' = Append(written, "viable")
    /\ pc' = "done"
    /\ UNCHANGED <<prog, input, settlements, viable_sites, error, call>>

NextFin ==
    \/ FinLoad
    \/ FinEstimate
    \/ FinSize
    \/ FinCost
    \/ FinMetrics
    \/ FinFilter
    \/ FinRound
    \/ FinSummary
    \/ FinWriteFull
    \/ FinWriteViable

SpecFin == InitFin /\ [][NextFin]_vars

(***************************************************************************)
(* customer_scoring_algorithm.py: normalize_score                          *)
(***************************************************************************)
\* np.log1p on the raw metrics the model feeds it: the integers 0..7.
Log1pDigits == <<0, 693147181, 109861229, 138629436, 160943791, 179175947, 194591015, 207944154>>

Log1p(x) ==
    LET n == TruncInt(x)
    IN  IF n = 1 THEN Dec(Log1pDigits[2], 9) ELSE Dec(Log1pDigits[n + 1], 8)

SeriesMin(s) == IF Len(s) = 0 THEN NaN ELSE CHOOSE x \in {s[i] : i \in 1..Len(s)} : \A j \in 1..Len(s) : FLe(x, s[j])

SeriesMax(s) == IF Len(s) = 0 THEN NaN ELSE CHOOSE x \in {s[i] : i \in 1..Len(s)} : \A j \in 1..Len(s) : FGe(x, s[j])

\* Lines 19-23: fillna(0), then the optional log transform.
Transformed(series, log_scale) ==
    [i \in 1..Len(series) |->
        IF log_scale THEN Log1p(FillNa(series[i], Zero)) ELSE FillNa(series[i], Zero)]

\* The scaling with the reversal left out.
MinMaxScaled_NoReverse(t, min_val, max_val, reverse) ==
    [i \in 1..Len(t) |-> FMul(FDiv(FSub(t[i], min_val), FSub(max_val, min_val)), FromInt(100))]

\* Lines 33-36: min-max scaling, then the optional reversal.
MinMaxScaled(t, min_val, max_val, reverse) ==
    [i \in 1..Len(t) |->
        LET normalized == FMul(FDiv(FSub(t[i], min_val), FSub(max_val, min_val)), FromInt(100))
        IN  IF reverse THEN FSub(FromInt(100), normalized) ELSE normalized]

normalize_score(series, reverse, log_scale) ==
    LET t       == Transformed(series, log_scale)
        min_val == SeriesMin(t)
        max_val == SeriesMax(t)
    IN  IF FEq(max_val, min_val)
        THEN [i \in 1..Len(t) |-> FromInt(50)]
        ELSE MinMaxScaled(t, min_val, max_val, reverse)

(***************************************************************************)
(* calculate_viability_scores                                              *)
(***************************************************************************)
Column(tbl, col) == [i \in 1..Len(tbl) |-> tbl[i][col]]

\* settlements[col] = s, a whole series at once.
WithSeries(tbl, col, s) == [i \in 1..Len(tbl) |-> SetCol(tbl[i], col, s[i])]

market_size_score(tbl) ==
    LET a == normalize_score(Column(tbl, "pop"), FALSE, TRUE)
        b == normalize_score(Column(tbl, "pop_den"), FALSE, TRUE)
    IN  [i \in 1..Len(tbl) |-> FAdd(FMul(a[i], Dec(7, 1)), FMul(b[i], Dec(3, 1)))]

revenue_potential_score(tbl) ==
    LET a == normalize_score(Column(tbl, "nightlight_intensity"), FALSE, TRUE)
        b == normalize_score(Column(tbl, "commercial_facilities_count"), FALSE, FALSE)
    IN  [i \in 1..Len(tbl) |-> FAdd(FMul(a[i], Dec(6, 1)), FMul(b[i], Dec(4, 1)))]

cost_efficiency_score(tbl) ==
    LET a == normalize_score(Column(tbl, "solar_ghi"), FALSE, FALSE)
        b == normalize_score(Column(tbl, "distance_to_grid_km"), FALSE, FALSE)
    IN  [i \in 1..Len(tbl) |-> FAdd(FMul(a[i], Dec(7, 1)), FMul(b[i], Dec(3, 1)))]

accessibility_score(tbl) ==
    LET a == normalize_score(Column(tbl, "schools_count"), FALSE, FALSE)
        b == normalize_score(Column(tbl, "health_facilities_count"), FALSE, FALSE)
        c == normalize_score(Column(tbl, "commercial_facilities_count"), FALSE, FALSE)
    IN  [i \in 1..Len(tbl) |->
            FAdd(FAdd(FMul(a[i], Dec(4, 1)), FMul(b[i], Dec(4, 1))), FMul(c[i], Dec(2, 1)))]

\* (x > 0).astype(int): 1 or 0, and 0 for a missing value.
Indicator(x) == IF FGt(x, Zero) THEN 1 ELSE 0

strategic_value_score(tbl) ==
    [i \in 1..Len(tbl) |->
        FromInt(Indicator(tbl[i]["health_facilities_count"]) * 60
                + Indicator(tbl[i]["schools_count"]) * 40)]

\* A weights table that does not sum to 1.
weights_NotNormalised ==
    << <<"market_size_score", Dec(25, 2)>>,
       <<"revenue_potential_score", Dec(25, 2)>>,
       <<"cost_efficiency_score", Dec(25, 2)>>,
       <<"accessibility_score", Dec(15, 2)>>,
       <<"strategic_value_score", Dec(15, 2)>> >>

\* The weights table, in its order.
weights ==
    << <<"market_size_score", Dec(25, 2)>>,
       <<"revenue_potential_score", Dec(25, 2)>>,
       <<"cost_efficiency_score", Dec(20, 2)>>,
       <<"accessibility_score", Dec(15, 2)>>,
       <<"strategic_value_score", Dec(15, 2)>> >>

\* sum(...) over the weights table: 0 + first term + second term + ...
RECURSIVE WeightedSum(_, _)
WeightedSum(row, k) ==
    IF k = 0 THEN Zero
    ELSE FAdd(WeightedSum(row, k - 1), FMul(row[weights[k][1]], weights[k][2]))

total_score(row) == WeightedSum(row, Len(weights))

Perms(n) == {p \in [1..n -> 1..n] : \A i, j \in 1..n : i # j => p[i] # p[j]}

\* sort_values('total_score', ascending=False) with the default kind
\* ('quicksort'): any ordering with total_score non-increasing; rows of equal
\* total_score come out in an order the sort does not define.
SortOutcomes(tbl) ==
    {[i \in 1..Len(tbl) |-> tbl[p[i]]] : p \in
        {q \in Perms(Len(tbl)) :
            \A i, j \in 1..Len(tbl) : i < j => FGe(tbl[q[i]]["total_score"], tbl[q[j]]["total_score"])}}

WithRank(tbl) == [i \in 1..Len(tbl) |-> SetCol(tbl[i], "rank", i)]

\* pd.cut(total_score, bins=[0, 40, 70, 100], labels=[Low, Medium, High]):
\* right-closed bins, the lowest edge excluded; no bin gives NaN.
viability_tier(row) ==
    LET x == row["total_score"]
    IN  IF FGt(x, Zero) /\ FLe(x, FromInt(40)) THEN "Low"
        ELSE IF FGt(x, FromInt(40)) /\ FLe(x, FromInt(70)) THEN "Medium"
        ELSE IF FGt(x, FromInt(70)) /\ FLe(x, FromInt(100)) THEN "High"
        ELSE "NaN"

ScoreColumns ==
    <<"pop", "pop_den", "nightlight_intensity", "commercial_facilities_count",
      "solar_ghi", "distance_to_grid_km", "schools_count", "health_facilities_count">>

ScoreCols == {ScoreColumns[i] : i \in 1..Len(ScoreColumns)}

Cell(v) == [c \in ScoreCols |-> v[CHOOSE i \in 1..Len(ScoreColumns) : ScoreColumns[i] = c]]

\* The settlements the input tables are drawn from: a bare hamlet, a town,
\* a record with gaps, a village with a school, a village with a clinic.
ScoreCells ==
    { Cell(<<Zero, Zero, Zero, Zero, Dec(45, 1), Zero, Zero, Zero>>),
      Cell(<<FromInt(7), FromInt(3), FromInt(3), FromInt(2), Dec(60, 1), FromInt(40), FromInt(2), FromInt(1)>>),
      Cell(<<NaN, FromInt(1), NaN, FromInt(1), NaN, FromInt(20), NaN, FromInt(1)>>),
      Cell(<<FromInt(3), FromInt(1), FromInt(1), FromInt(1), Dec(55, 1), FromInt(20), FromInt(1), Zero>>),
      Cell(<<FromInt(1), FromInt(3), Zero, FromInt(2), Dec(55, 1), NaN, Zero, FromInt(2)>>) }

ScoreInputs ==
    {Unreadable} \cup
    {[ok |-> TRUE, cols |-> cs, rows |-> FileRows(cells, cs)] :
        cs \in ColumnSets(ScoreCols),
        cells \in UNION {[1..n -> ScoreCells] : n \in 0..MaxScoreRows}}

InitScore ==
    /\ prog = "score"
    /\ pc = "start"
    /\ input \in ScoreInputs
    /\ settlements = <<>>
    /\ viable_sites = <<>>
    /\ files = NoFiles
    /\ written = <<>>
    /\ error = ""
    /\ call = <<>>

\* The first of the columns a statement reads, in the order it reads them,
\* that the table does not have ("" when it has them all).
FirstAbsent(needed) ==
    IF \A k \in 1..Len(needed) : needed[k] \in input.cols THEN ""
    ELSE needed[CHOOSE k \in 1..Len(needed) :
                    /\ needed[k] \notin input.cols
                    /\ \A l \in 1..(k - 1) : needed[l] \in input.cols]

ScoreLoad ==
    /\ prog = "score" /\ pc = "start"
    /\ pc' = AfterLoad(input.ok)
    /\ settlements' = input.rows
    /\ error' = IF input.ok THEN error ELSE "Error loading file"
    /\ UNCHANGED <<prog, input, viable_sites, files, written, call>>

\* Lines 58-61.
ScoreMarket ==
    /\ prog = "score" /\ pc = "loaded"
    /\ IF FirstAbsent(<<"pop", "pop_den">>) # ""
       THEN Raise("KeyError: " \o FirstAbsent(<<"pop", "pop_den">>)) /\ UNCHANGED settlements
       ELSE /\ settlements' = WithSeries(settlements, "market_size_score", market_size_score(settlements))
            /\ pc' = "market"
            /\ UNCHANGED error
    /\ UNCHANGED <<prog, input, viable_sites, files, written, call>>

\* Lines 65-68.
ScoreRevenue ==
    /\ prog = "score" /\ pc = "market"
    /\ IF FirstAbsent(<<"nightlight_intensity", "commercial_facilities_count">>) # ""
       THEN Raise("KeyError: " \o FirstAbsent(<<"nightlight_intensity", "commercial_facilities_count">>)) /\ UNCHANGED settlements
       ELSE /\ settlements' = WithSeries(settlements, "revenue_potential_score", revenue_potential_score(settlements))
            /\ pc' = "revenue"
            /\ UNCHANGED error
    /\ UNCHANGED <<prog, input, viable_sites, files, written, call>>

\* Lines 74-77.
ScoreCost ==
    /\ prog = "score" /\ pc = "revenue"
    /\ IF FirstAbsent(<<"solar_ghi", "distance_to_grid_km">>) # ""
       THEN Raise("KeyError: " \o FirstAbsent(<<"solar_ghi", "distance_to_grid_km">>)) /\ UNCHANGED settlements
       ELSE /\ settlements' = WithSeries(settlements, "cost_efficiency_score", cost_efficiency_score(settlements))
            /\ pc' = "cost"
            /\ UNCHANGED error
    /\ UNCHANGED <<prog, input, viable_sites, files, written, call>>

\* Lines 82-86.
ScoreAccess ==
    /\ prog = "score" /\ pc = "cost"
    /\ IF FirstAbsent(<<"schools_count", "health_facilities_count", "commercial_facilities_count">>) # ""
       THEN Raise("KeyError: " \o FirstAbsent(<<"schools_count", "health_facilities_count", "commercial_facilities_count">>)) /\ UNCHANGED settlements
       ELSE /\ settlements' = WithSeries(settlements, "accessibility_score", accessibility_score(settlements))
            /\ pc' = "access"
            /\ UNCHANGED error
    /\ UNCHANGED <<prog, input, viable_sites, files, written, call>>

\* Lines 92-96.
ScoreStrategic ==
    /\ prog = "score" /\ pc = "access"
    /\ IF FirstAbsent(<<"health_facilities_count", "schools_count">>) # ""
       THEN Raise("KeyError: " \o FirstAbsent(<<"health_facilities_count", "schools_count">>)) /\ UNCHANGED settlements
       ELSE /\ settlements' = WithSeries(settlements, "strategic_value_score", strategic_value_score(settlements))
            /\ pc' = "strategic"
            /\ UNCHANGED error
    /\ UNCHANGED <<prog, input, viable_sites, files, written, call>>

\* Lines 99-110.
ScoreTotal ==
    /\ prog = "score" /\ pc = "strategic"
    /\ settlements' = [i \in 1..Len(settlements) |->
                         SetCol(settlements[i], "total_score", total_score(settlements[i]))]
    /\ pc' = "scored"
    /\ UNCHANGED <<prog, input, viable_sites, files, written, error, call>>

\* Lines 113-114.
ScoreRank ==
    /\ prog = "score" /\ pc = "scored"
    /\ \E sorted \in SortOutcomes(settlements) : settlements' = WithRank(sorted)
    /\ pc' = "ranked"
    /\ UNCHANGED <<prog, input, viable_sites, files, written, error, call>>

\* Lines 117-121.
ScoreTier ==
    /\ prog = "score" /\ pc = "ranked"
    /\ settlements' = [i \in 1..Len(settlements) |->
                         SetCol(settlements[i], "viability_tier", viability_tier(settlements[i]))]
    /\ pc' = "tiered"
    /\ UNCHANGED <<prog, input, viable_sites, files, written, error, call>>

\* Lines 125-134: the GeoJSON is written, then the top site is printed.
ScoreWrite ==
    /\ prog = "score" /\ pc = "tiered"
    /\ files' = [files EXCEPT !.scored = FileOf(settlements)]
    /\ written' = Append(written, "scored")
    /\ pc' = "done"
    /\ UNCHANGED <<prog, input, settlements, viable_sites, error, call>>

NextScore ==
    \/ ScoreLoad
    \/ ScoreMarket
    \/ ScoreRevenue
    \/ ScoreCost
    \/ ScoreAccess
    \/ ScoreStrategic
    \/ ScoreTotal
    \/ ScoreRank
    \/ ScoreTier
    \/ ScoreWrite

SpecScore == InitScore /\ [][NextScore]_vars

(***************************************************************************)
(* normalize_score called on its own, on any short series and any flags.   *)
(***************************************************************************)
NormValues == {NaN, Zero, FromInt(1), FromInt(3), FromInt(7)}

InitNorm ==
    /\ prog = "norm"
    /\ pc = "start"
    /\ input = Unreadable
    /\ settlements = <<>>
    /\ viable_sites = <<>>
    /\ files = NoFiles
    /\ written = <<>>
    /\ error = ""
    /\ call \in [series : UNION {[1..n -> NormValues] : n \in 0..MaxSeriesLen},
                 reverse : BOOLEAN, log_scale : BOOLEAN, result : {<<>>}]

NormCall ==
    /\ prog = "norm" /\ pc = "start"
    /\ call' = [call EXCEPT !.result = normalize_score(call.series, call.reverse, call.log_scale)]
    /\ pc' = "returned"
    /\ UNCHANGED <<prog, input, settlements, viable_sites, files, written, error>>

NextNorm == NormCall

SpecNorm == InitNorm /\ [][NextNorm]_vars

Init == InitScore \/ InitFin \/ InitNorm

Next ==
    \/ ScoreLoad
    \/ ScoreMarket
    \/ ScoreRevenue
    \/ ScoreCost
    \/ ScoreAccess
    \/ ScoreStrategic
    \/ ScoreTotal
    \/ ScoreRank
    \/ ScoreTier
    \/ ScoreWrite
    \/ FinLoad
    \/ FinEstimate
    \/ FinSize
    \/ FinCost
    \/ FinMetrics
    \/ FinFilter
    \/ FinRound
    \/ FinSummary
    \/ FinWriteFull
    \/ FinWriteViable
    \/ NormCall

Spec == Init /\ [][Next]_vars

(***************************************************************************)
(* Properties                                                              *)
(***************************************************************************)
SubScores ==
    {"market_size_score", "revenue_potential_score", "cost_efficiency_score",
     "accessibility_score", "strategic_value_score"}

ReportedFields ==
    {"system_size_kw", "capex_estimate_usd", "opex_annual_usd", "revenue_annual_usd",
     "annual_cashflow_usd", "payback_years", "npv_10yr_usd", "simple_yield_percent"}

Ids(tbl) == {tbl[i]["id"] : i \in 1..Len(tbl)}

InRange(x) == FGe(x, Zero) /\ FLe(x, FromInt(100))

\* The tier the bins give when the lowest bin includes 0.
TierByBins(x) ==
    IF FLe(x, FromInt(40)) THEN "Low" ELSE IF FLe(x, FromInt(70)) THEN "Medium" ELSE "High"

\* A table with every missing value of the given columns set to 0.
ZeroFilled(tbl, cols) ==
    [i \in 1..Len(tbl) |->
        [c \in DOMAIN tbl[i] |-> IF c \in cols THEN FillNa(tbl[i][c], Zero) ELSE tbl[i][c]]]

\* C1: once the tiers are assigned, every record's viability_tier is the one
\* its total_score has by the bins (0,40] -> Low, (40,70] -> Medium,
\* (70,100] -> High, a total_score of exactly 0 being Low: no record is
\* without a tier.
C1_EveryRecordTiered ==
    (prog = "score" /\ pc \in {"tiered", "done"}) =>
        \A i \in 1..Len(settlements) :
            settlements[i]["viability_tier"] = TierByBins(settlements[i]["total_score"])

\* C2: once ranked, the table holds the N input records, rank i on row i
\* (a permutation of 1..N in output order), total_score non-increasing down
\* the rows, and records of equal total_score in their input row order.
C2_RankStable ==
    (prog = "score" /\ pc \in {"ranked", "tiered", "done"}) =>
        /\ Len(settlements) = Len(input.rows)
        /\ Ids(settlements) = 1..Len(input.rows)
        /\ \A i \in 1..Len(settlements) : settlements[i]["rank"] = i
        /\ \A i, j \in 1..Len(settlements) :
              i < j => /\ FGe(settlements[i]["total_score"], settlements[j]["total_score"])
                       /\ FEq(settlements[i]["total_score"], settlements[j]["total_score"])
                            => settlements[i]["id"] < settlements[j]["id"]

\* C3: when both outputs are written, a record of the full output is in the
\* viable output exactly when the npv_10yr_usd it carries in the full output
\* is positive and the payback_years it carries there is below 7.
C3_ViableIffRuleOnFullOutput ==
    (prog = "fin" /\ pc = "done") =>
        \A i \in 1..Len(files.full.rows) :
            LET r == files.full.rows[i]
            IN  (r["id"] \in Ids(files.viable.rows))
                    <=> (FGt(r["npv_10yr_usd"], Zero) /\ FLt(r["payback_years"], FromInt(7)))

\* C4: from the financial metrics on, every record's payback_years is 999
\* when its annual_cashflow_usd is not positive and capex_estimate_usd /
\* annual_cashflow_usd exactly otherwise, and it is a finite number that is
\* never negative, whatever the population, irradiance and distance.
C4_PaybackSentinelOrRatio ==
    (prog = "fin" /\ pc \in {"projected", "filtered", "rounded", "reported", "full_saved", "done"}) =>
        \A i \in 1..Len(settlements) :
            LET r == settlements[i]
            IN  /\ FLe(r["annual_cashflow_usd"], Zero) => r["payback_years"] = FromInt(SENTINEL)
                /\ FGt(r["annual_cashflow_usd"], Zero)
                     => r["payback_years"] = FDiv(r["capex_estimate_usd"], r["annual_cashflow_usd"])
                /\ IsNum(r["payback_years"])
                /\ FGe(r["payback_years"], Zero)

\* C5: a run of either stage ends in an error only for a column absent from
\* the file, the error naming it; a missing value never stops a stage, and a
\* finished stage has given every record the derived fields it gives the
\* same table with the missing values set to 0 (the Engineering Sizer reads
\* a missing irradiance as the baseline GHI).
C5_MissingValueCountsAsZero ==
    /\ (prog \in {"score", "fin"} /\ pc = "crashed") =>
          \E c \in (IF prog = "fin" THEN FinCols ELSE ScoreCols) \ input.cols :
              error = "KeyError: " \o c
    /\ (prog = "fin" /\ pc = "done") =>
          files.full.rows =
              Rounded(Projected(Costed(Sized(Estimated(
                  ZeroFilled(input.rows, {"pop", "distance_to_grid_km"}))))))
    /\ (prog = "score" /\ pc = "done") =>
          LET filled == ZeroFilled(input.rows, ScoreCols)
          IN  \A i \in 1..Len(files.scored.rows) :
                  LET r == files.scored.rows[i]
                  IN  /\ \A c \in SubScores \cup {"total_score"} : IsNum(r[c])
                      /\ r["market_size_score"] = market_size_score(filled)[r["id"]]
                      /\ r["revenue_potential_score"] = revenue_potential_score(filled)[r["id"]]
                      /\ r["cost_efficiency_score"] = cost_efficiency_score(filled)[r["id"]]
                      /\ r["accessibility_score"] = accessibility_score(filled)[r["id"]]
                      /\ r["strategic_value_score"] = strategic_value_score(filled)[r["id"]]

C8_OutputsRoundedToOneDecimal ==
    (prog = "fin" /\ pc = "done") =>
        \A out \in {files.full.rows, files.viable.rows} :
            \A i \in 1..Len(out) :
                \A c \in ReportedFields : Round1(out[i][c]) = out[i][c]

\* C9: a run of either stage whose input cannot be loaded goes from its
\* start to the abort with the message and nowhere else: nothing is
\* computed and no file is written.
C9_FailedLoadWritesNothing ==
    (prog \in {"score", "fin"} /\ ~input.ok) =>
        /\ pc \in {"start", "aborted"}
        /\ pc = "aborted" => error \in {"Error loading file", "Error loading input file"}
        /\ settlements = <<>> /\ viable_sites = <<>>
        /\ files = NoFiles
        /\ written = <<>>

\* C9 witness: a run that has aborted on an unreadable input.
C9_AbortedOnUnreadableInput ==
    /\ prog \in {"score", "fin"}
    /\ ~input.ok
    /\ pc = "aborted"
    /\ error # ""

\* C10: a financial run on a loaded table that has the three columns and no
\* missing value never ends in an error, the empty table included; it
\* writes the full output, then the viable one; the full output holds the
\* input records, all of them, and the viable output some of them.
C10_CleanTableRunsToCompletion ==
    (/\ prog = "fin" /\ input.ok /\ input.cols = FinCols
     /\ \A i \in 1..Len(input.rows) : \A c \in FinCols : ~IsNaN(input.rows[i][c])) =>
        /\ pc # "crashed"
        /\ written \in {<<>>, <<"full">>, <<"full", "viable">>}
        /\ files.full.written =>
              /\ Len(files.full.rows) = Len(input.rows)
              /\ \A i \in 1..Len(input.rows) : files.full.rows[i]["id"] = i
        /\ files.viable.written => Ids(files.viable.rows) \subseteq Ids(files.full.rows)

====
